---- MODULE Spec2Model ----
(***************************************************************************)
(* A model of bedrock::flash_sim (src/src/flash_sim.cpp), the pin-level    *)
(* simulation of an SPI NOR flash chip, together with the bit-clocking     *)
(* helpers of bedrock::flash (src/src/flash.ipp) that callers use to       *)
(* drive it.                                                                *)
(*                                                                         *)
(* The chip is the state machine of flash_sim: one action per public       *)
(* method (toggle_chip_enable, toggle_serial_input, toggle_clock,          *)
(* wait_for_write_complete).  A C++ exception is modelled by the variable  *)
(* `error`: it names the failure of the call made by the step, and every   *)
(* assignment the code performs before the throw is kept in the state.     *)
(***************************************************************************)
EXTENDS Integers, Sequences, FiniteSets, TLC

(***************************************************************************)
(* Program constants.                                                      *)
(***************************************************************************)
\* _write_buffer(256): size of the page write buffer.
WriteBufferSize == 256
\* operation_with_address::_bit_index(12): address bits read after the opcode.
AddressBits == 12
\* _bit_index = 8 on chip select: bits of the instruction register.
InstructionBits == 8
\* std::byte / std::uint8_t hold values modulo 2^8.
ByteMod == 256
\* Width of the promoted unsigned int std::byte is shifted in.
IntBits == 32
\* The erased value of a byte.
ErasedByte == 255

(***************************************************************************)
(* Bounds of the exploration.                                              *)
(***************************************************************************)
\* Bytes of the chip (the num_bytes given to the constructor).  The commit of
\* a page write copies WriteBufferSize bytes to offset WriteBufferSize, so a
\* chip of 2 * WriteBufferSize bytes or more keeps the copy inside _data.
Capacity == 512
\* Commands (chip selects) a caller starts in one run.
MaxCommands == 6
\* Helper calls after an opcode (address in, data byte in, data byte out) a
\* caller makes in one run.
MaxTransfers == 3
\* Pin calls outside the command protocol a caller makes in one run.
MaxStrays == 1
\* The same three bounds for the runs of SpecLong, which trade one command
\* for one more transfer (a page write with data and a read with data).
LongCommands == 5
LongTransfers == 4
LongStrays == 1
\* The same three bounds for the runs of SpecReplay, in which a second chip
\* is fed the log of the first.
ReplayCommands == 4
ReplayTransfers == 3
ReplayStrays == 1
\* The bounds of the runs of a caller that strays repeatedly (SpecStray).
StrayCommands == 2
StrayTransfers == 2
StrayStrays == 3
\* The bounds of the runs that continue a page write whose buffer is one byte
\* short of full (SpecPage): commands, transfers and bare pin calls the
\* caller makes from there.
PageCommands == 1
PageTransfers == 3
PageStrays == 2

VARIABLES
    chip_enable,          \* flash_sim::_chip_enable
    serial_input,         \* flash_sim::_serial_input
    serial_output,        \* flash_sim::_serial_output
    chip_state,           \* flash_sim::_chip_state
    write_enabled,        \* flash_sim::_write_enabled
    bit_index,            \* flash_sim::_bit_index (std::uint8_t)
    instruction_register, \* flash_sim::_instruction_register
    operation,            \* flash_sim::_operation (NoOperation is nullptr)
    data,                 \* flash_sim::_data, indexed from 0
    user_operations,      \* flash_sim::_user_operations
    call,                 \* the flash method the step called ("none": no call)
    error,                \* the exception that call ended with ("none": it returned)
    helper,               \* the running clock_in_data / clock_out_data frame
    sent,                 \* values of the clock_in_data calls completed in this command
    received,             \* values the clock_out_data calls of this command returned
    history,              \* `sent` of every command ended by a chip-enable toggle
    commands,             \* chip selects so far
    transfers,            \* helper calls after an opcode so far
    strays,               \* pin calls outside the protocol so far
    failures,             \* failed calls so far
    budget,               \* the bounds of this run: commands, transfers, strays
    replica               \* the second chip, replaying the log of the first

chip == <<chip_enable, serial_input, serial_output, chip_state, write_enabled,
          bit_index, instruction_register, operation, data>>
vars == <<chip_enable, serial_input, serial_output, chip_state, write_enabled,
          bit_index, instruction_register, operation, data, user_operations,
          call, error, helper, sent, received, history, commands,
          transfers, strays, failures, budget, replica>>

(***************************************************************************)
(* Bit arithmetic.                                                         *)
(***************************************************************************)
\* Bit k of x.
Bit(x, k) == (x \div (2 ^ k)) % 2

\* x | mask for a mask with at most one bit set (mask = 0 or a power of two).
OrMask(x, mask) ==
    IF mask = 0 THEN x
    ELSE IF (x \div mask) % 2 = 1 THEN x ELSE x + mask

\* pin_state::high ? 1 : 0
PinBit(pin) == IF pin = "high" THEN 1 ELSE 0

\* static_cast<std::byte>(b << shift) for a shift count below IntBits: the
\* bit moved to position 8 or above is cut off by the conversion to 8 bits.
ShiftLeftToByte(b, shift) ==
    IF shift < 8 THEN (b * (2 ^ shift)) % ByteMod ELSE 0

\* The values std::byte{b} << shift can take.  operator<<(std::byte, int)
\* shifts the promoted unsigned int and truncates to 8 bits; a shift count of
\* IntBits or more is undefined: the build either yields 0 or shifts by the
\* count modulo IntBits.
ByteShiftLeft(b, shift) ==
    IF shift < IntBits
    THEN {ShiftLeftToByte(b, shift)}
    ELSE {0, ShiftLeftToByte(b, shift % IntBits)}

(***************************************************************************)
(* Operation objects.  One record shape serves the four operation classes; *)
(* the fields a class does not have keep a fixed filler value.             *)
(*   address, addr_bit_index : operation_with_address::_address/_bit_index *)
(*   write_buffer, current_byte, bit_index : write_operation's members;    *)
(*   current_byte is the distance of the iterator from begin().            *)
(***************************************************************************)
\* _operation == nullptr
NoOperation ==
    [kind |-> "none", address |-> 0, addr_bit_index |-> 0,
     write_buffer |-> <<>>, current_byte |-> 0, bit_index |-> 0]

\* _address has no initializer: the member starts with whatever the heap
\* block held.  These are the starting values explored: clean memory, and
\* stale bits both inside and above the address bits.
UninitAddress == {0, 2 ^ AddressBits + 1}

\* operation_with_address(f): _bit_index(12), _address left uninitialized.
operation_with_address(kind, garbage) ==
    [kind |-> kind, address |-> garbage, addr_bit_index |-> AddressBits,
     write_buffer |-> <<>>, current_byte |-> 0, bit_index |-> 0]

\* read_operation(f)
read_operation(garbage) == operation_with_address("read", garbage)

\* write_operation(f): _write_buffer(256), _current_byte(begin), _bit_index(8)
write_operation(garbage) ==
    [operation_with_address("write", garbage) EXCEPT
        !.write_buffer = [i \in 1..WriteBufferSize |-> 0],
        !.bit_index = 8]

\* write_enable_operation(f)
write_enable_operation == [NoOperation EXCEPT !.kind = "write_enable"]

\* chip_erase_operation(f)
chip_erase_operation == [NoOperation EXCEPT !.kind = "chip_erase"]

\* Fault injection for C19: a dispatch table with the entries of 0x02 and
\* 0x03 exchanged.
operation_map_swapped(opcode) ==
    CASE opcode = 2 -> "read"
      [] opcode = 3 -> "write"
      [] opcode = 6 -> "write_enable"
      [] opcode = 96 -> "chip_erase"
      [] OTHER -> "unknown"

\* Fault injection for C14: a dispatch table that has an entry (the read
\* operation) for every byte.
operation_map_total(opcode) ==
    CASE opcode = 2 -> "write"
      [] opcode = 3 -> "read"
      [] opcode = 6 -> "write_enable"
      [] opcode = 96 -> "chip_erase"
      [] OTHER -> "read"

\* _operation_map: opcode -> class of the operation it constructs.
operation_map(opcode) ==
    CASE opcode = 2 -> "write"
      [] opcode = 3 -> "read"
      [] opcode = 6 -> "write_enable"
      [] opcode = 96 -> "chip_erase"
      [] OTHER -> "unknown"

\* Fault injection for C7: the constructor of write_operation without its
\* write-enable guard.
ConstructorRequiresWriteEnable_erase_only(kind) == kind \in {"chip_erase"}

\* The guard in the constructors of write_operation and chip_erase_operation.
ConstructorRequiresWriteEnable(kind) == kind \in {"write", "chip_erase"}

\* _operation_map.at(opcode)(*this): the constructed operation, or the
\* exception of the lookup (std::out_of_range) or of the constructor.
make_operation(opcode, we, garbage) ==
    LET kind == operation_map(opcode) IN
    IF kind = "unknown"
    THEN [op |-> NoOperation, error |-> "UnknownOpcode"]
    ELSE IF ConstructorRequiresWriteEnable(kind) /\ ~we
    THEN [op |-> NoOperation, error |-> "WriteEnableRequired"]
    ELSE [op |-> CASE kind = "write" -> write_operation(garbage)
                   [] kind = "read" -> read_operation(garbage)
                   [] kind = "write_enable" -> write_enable_operation
                   [] kind = "chip_erase" -> chip_erase_operation,
          error |-> "none"]

(***************************************************************************)
(* The operations' handlers, as functions of the state they read.          *)
(* A clock handler returns the operation after the call and the error;     *)
(* a chip-enable handler returns data, write_enabled and the error.        *)
(***************************************************************************)
\* read_operation::toggle_clock_impl: empty body.
read_operation_toggle_clock_impl(op, si, d) == [op |-> op, error |-> "none"]

\* Fault injection for C8: write_operation::toggle_clock_impl with the
\* non-erased test made only when the bit to write is 1.
write_operation_toggle_clock_impl_checks_set_bits(op, si, d) ==
    LET byte_index == op.current_byte
        target == op.address + byte_index
    IN
    IF op.current_byte = WriteBufferSize
    THEN [op |-> op, error |-> "BufferFull"]
    ELSE IF op.bit_index = 8 /\ target \notin DOMAIN d
    THEN [op |-> op, error |-> "OutOfRange"]
    ELSE IF op.bit_index = 8 /\ si = "high" /\ d[target] # ErasedByte
    THEN [op |-> op, error |-> "NonErasedByteWrite"]
    ELSE
        LET nb == op.bit_index - 1
            cur == op.write_buffer[byte_index + 1]
            buf == [op.write_buffer EXCEPT
                       ![byte_index + 1] = OrMask(cur, PinBit(si) * (2 ^ nb))]
        IN [op |-> IF nb = 0
                   THEN [op EXCEPT !.write_buffer = buf,
                                   !.current_byte = byte_index + 1,
                                   !.bit_index = 8]
                   ELSE [op EXCEPT !.write_buffer = buf, !.bit_index = nb],
            error |-> "none"]

\* A write_operation::toggle_clock_impl that returns without a word when the
\* write buffer is full.
write_operation_toggle_clock_impl_ignores_full(op, si, d) ==
    LET byte_index == op.current_byte
        target == op.address + byte_index
    IN
    IF op.current_byte = WriteBufferSize
    THEN [op |-> op, error |-> "none"]
    ELSE IF op.bit_index = 8 /\ target \notin DOMAIN d
    THEN [op |-> op, error |-> "OutOfRange"]
    ELSE IF op.bit_index = 8 /\ d[target] # ErasedByte
    THEN [op |-> op, error |-> "NonErasedByteWrite"]
    ELSE
        LET nb == op.bit_index - 1
            cur == op.write_buffer[byte_index + 1]
            buf == [op.write_buffer EXCEPT
                       ![byte_index + 1] = OrMask(cur, PinBit(si) * (2 ^ nb))]
        IN [op |-> IF nb = 0
                   THEN [op EXCEPT !.write_buffer = buf,
                                   !.current_byte = byte_index + 1,
                                   !.bit_index = 8]
                   ELSE [op EXCEPT !.write_buffer = buf, !.bit_index = nb],
            error |-> "none"]

\* write_operation::toggle_clock_impl
write_operation_toggle_clock_impl(op, si, d) ==
    LET byte_index == op.current_byte
        target == op.address + byte_index
    IN
    IF op.current_byte = WriteBufferSize
    THEN [op |-> op, error |-> "BufferFull"]
    ELSE IF op.bit_index = 8 /\ target \notin DOMAIN d
    THEN [op |-> op, error |-> "OutOfRange"]
    ELSE IF op.bit_index = 8 /\ d[target] # ErasedByte
    THEN [op |-> op, error |-> "NonErasedByteWrite"]
    ELSE
        LET nb == op.bit_index - 1
            cur == op.write_buffer[byte_index + 1]
            buf == [op.write_buffer EXCEPT
                       ![byte_index + 1] = OrMask(cur, PinBit(si) * (2 ^ nb))]
        IN [op |-> IF nb = 0
                   THEN [op EXCEPT !.write_buffer = buf,
                                   !.current_byte = byte_index + 1,
                                   !.bit_index = 8]
                   ELSE [op EXCEPT !.write_buffer = buf, !.bit_index = nb],
            error |-> "none"]

\* operation_with_address::toggle_clock
operation_with_address_toggle_clock(op, si, d) ==
    IF op.addr_bit_index # 0
    THEN [op |-> [op EXCEPT
                     !.addr_bit_index = @ - 1,
                     !.address = OrMask(@, PinBit(si) * (2 ^ (op.addr_bit_index - 1)))],
          error |-> "none"]
    ELSE IF op.kind = "read"
    THEN read_operation_toggle_clock_impl(op, si, d)
    ELSE write_operation_toggle_clock_impl(op, si, d)

\* operation::toggle_clock, dispatched on the dynamic class.
operation_toggle_clock(op, si, d) ==
    CASE op.kind = "write_enable" ->
            \* write_enable_operation::toggle_clock always throws.
            [op |-> op, error |-> "ClockNotApplicable"]
      [] op.kind = "chip_erase" ->
            \* chip_erase_operation::toggle_clock always throws.
            [op |-> op, error |-> "ClockNotApplicable"]
      [] OTHER -> operation_with_address_toggle_clock(op, si, d)

\* Fault injection for C20: a read that clears the write-enable flag when it
\* ends.
read_operation_toggle_chip_enable_impl_clears_flag(op, d, we) ==
    [data |-> d, write_enabled |-> FALSE, error |-> "none"]

\* read_operation::toggle_chip_enable_impl: empty body.
read_operation_toggle_chip_enable_impl(op, d, we) ==
    [data |-> d, write_enabled |-> we, error |-> "none"]

\* write_operation::toggle_chip_enable_impl:
\*   std::copy(begin(_write_buffer), end(_write_buffer),
\*             begin(_flash._data) + _write_buffer.size());
\*   _flash._write_enabled = false;
\* With Capacity >= 2 * WriteBufferSize the copy stays inside _data.
write_operation_toggle_chip_enable_impl(op, d, we) ==
    LET first == Len(op.write_buffer) IN
    [data |-> [i \in DOMAIN d |->
                  IF i >= first /\ i < first + Len(op.write_buffer)
                  THEN op.write_buffer[i - first + 1]
                  ELSE d[i]],
     write_enabled |-> FALSE,
     error |-> "none"]

\* operation_with_address::toggle_chip_enable
operation_with_address_toggle_chip_enable(op, d, we) ==
    IF op.addr_bit_index # 0
    THEN [data |-> d, write_enabled |-> we, error |-> "InvalidTransition"]
    ELSE IF op.kind = "read"
    THEN read_operation_toggle_chip_enable_impl(op, d, we)
    ELSE write_operation_toggle_chip_enable_impl(op, d, we)

\* Fault injection for C5: write_enable_operation::toggle_chip_enable without
\* the assignment _flash._write_enabled = true.
write_enable_operation_toggle_chip_enable_no_set(op, d, we) ==
    IF we
    THEN [data |-> d, write_enabled |-> we, error |-> "AlreadyWriteEnabled"]
    ELSE [data |-> d, write_enabled |-> we, error |-> "none"]

\* write_enable_operation::toggle_chip_enable
write_enable_operation_toggle_chip_enable(op, d, we) ==
    IF we
    THEN [data |-> d, write_enabled |-> we, error |-> "AlreadyWriteEnabled"]
    ELSE [data |-> d, write_enabled |-> TRUE, error |-> "none"]

\* Fault injection for C17: an erase that inverts the erased state of every
\* byte instead of setting it.
chip_erase_operation_toggle_chip_enable_flip(op, d, we) ==
    [data |-> [i \in DOMAIN d |-> IF d[i] = ErasedByte THEN 0 ELSE ErasedByte],
     write_enabled |-> FALSE,
     error |-> "none"]

\* Fault injection for C6: chip_erase_operation::toggle_chip_enable with a
\* fill that stops one byte short of the end of _data.
chip_erase_operation_toggle_chip_enable_short_fill(op, d, we) ==
    [data |-> [i \in DOMAIN d |-> IF i + 1 \in DOMAIN d THEN ErasedByte ELSE d[i]],
     write_enabled |-> FALSE,
     error |-> "none"]

\* chip_erase_operation::toggle_chip_enable
chip_erase_operation_toggle_chip_enable(op, d, we) ==
    [data |-> [i \in DOMAIN d |-> ErasedByte],
     write_enabled |-> FALSE,
     error |-> "none"]

\* operation::toggle_chip_enable, dispatched on the dynamic class.
operation_toggle_chip_enable(op, d, we) ==
    CASE op.kind = "write_enable" -> write_enable_operation_toggle_chip_enable(op, d, we)
      [] op.kind = "chip_erase" -> chip_erase_operation_toggle_chip_enable(op, d, we)
      [] OTHER -> operation_with_address_toggle_chip_enable(op, d, we)

(***************************************************************************)
(* The chip: flash_sim's public methods.  Each formula is the whole call:  *)
(* it sets every chip variable, the log, `call` and `error`.               *)
(***************************************************************************)
\* flash_sim::flash_sim(num_bytes)
flash_sim(num_bytes) ==
    /\ chip_enable = "high"
    /\ serial_input = "low"
    /\ serial_output = "low"
    /\ chip_state = "deselected"
    /\ write_enabled = FALSE
    /\ bit_index = 0
    /\ instruction_register = 0
    /\ operation = NoOperation
    /\ data = [i \in 0..(num_bytes - 1) |-> 0]
    /\ user_operations = <<>>

\* A toggle_chip_enable that forgets _operation.reset() when a command ends.
toggle_chip_enable_keeps_operation ==
    /\ call' = "toggle_chip_enable"
    /\ UNCHANGED <<chip_enable, serial_input, serial_output>>
    /\ CASE chip_state = "deselected" ->
              /\ user_operations' = Append(user_operations, "toggle_chip_enable")
              /\ chip_state' = "command"
              /\ bit_index' = InstructionBits
              /\ error' = "none"
              /\ UNCHANGED <<write_enabled, instruction_register, operation, data>>
         [] chip_state = "command" ->
              /\ error' = "InvalidTransition"
              /\ UNCHANGED <<chip_state, write_enabled, bit_index,
                             instruction_register, operation, data, user_operations>>
         [] chip_state = "operation" ->
              IF operation = NoOperation
              THEN /\ error' = "NoOperation"
                   /\ UNCHANGED <<chip_state, write_enabled, bit_index,
                                  instruction_register, operation, data, user_operations>>
              ELSE LET r == operation_toggle_chip_enable(operation, data, write_enabled) IN
                   /\ user_operations' = Append(user_operations, "toggle_chip_enable")
                   /\ data' = r.data
                   /\ write_enabled' = r.write_enabled
                   /\ error' = r.error
                   /\ UNCHANGED bit_index
                   /\ IF r.error = "none"
                      THEN /\ operation' = operation
                           /\ instruction_register' = 0
                           /\ chip_state' = "deselected"
                      ELSE UNCHANGED <<operation, instruction_register, chip_state>>

\* flash_sim::toggle_chip_enable
toggle_chip_enable ==
    /\ call' = "toggle_chip_enable"
    /\ UNCHANGED <<chip_enable, serial_input, serial_output>>
    /\ CASE chip_state = "deselected" ->
              /\ user_operations' = Append(user_operations, "toggle_chip_enable")
              /\ chip_state' = "command"
              /\ bit_index' = InstructionBits
              /\ error' = "none"
              /\ UNCHANGED <<write_enabled, instruction_register, operation, data>>
         [] chip_state = "command" ->
              /\ error' = "InvalidTransition"
              /\ UNCHANGED <<chip_state, write_enabled, bit_index,
                             instruction_register, operation, data, user_operations>>
         [] chip_state = "operation" ->
              IF operation = NoOperation
              THEN /\ error' = "NoOperation"
                   /\ UNCHANGED <<chip_state, write_enabled, bit_index,
                                  instruction_register, operation, data, user_operations>>
              ELSE LET r == operation_toggle_chip_enable(operation, data, write_enabled) IN
                   /\ user_operations' = Append(user_operations, "toggle_chip_enable")
                   /\ data' = r.data
                   /\ write_enabled' = r.write_enabled
                   /\ error' = r.error
                   /\ UNCHANGED bit_index
                   /\ IF r.error = "none"
                      THEN /\ operation' = NoOperation
                           /\ instruction_register' = 0
                           /\ chip_state' = "deselected"
                      ELSE UNCHANGED <<operation, instruction_register, chip_state>>

\* A toggle_serial_input without the test of the last logged operation.
toggle_serial_input_any_order ==
    /\ call' = "toggle_serial_input"
    /\ UNCHANGED <<chip_enable, serial_output, chip_state, write_enabled, bit_index,
                   instruction_register, operation, data>>
    /\ IF chip_state = "deselected"
       THEN /\ error' = "InvalidTransition"
            /\ UNCHANGED <<serial_input, user_operations>>
       ELSE /\ user_operations' = Append(user_operations, "toggle_serial_input")
            /\ serial_input' = IF serial_input = "high" THEN "low" ELSE "high"
            /\ error' = "none"

\* flash_sim::toggle_serial_input
toggle_serial_input ==
    /\ call' = "toggle_serial_input"
    /\ UNCHANGED <<chip_enable, serial_output, chip_state, write_enabled, bit_index,
                   instruction_register, operation, data>>
    /\ IF chip_state = "deselected"
       THEN /\ error' = "InvalidTransition"
            /\ UNCHANGED <<serial_input, user_operations>>
       ELSE IF /\ user_operations # <<>>
               /\ user_operations[Len(user_operations)] = "toggle_serial_input"
       THEN /\ error' = "InvalidTransition"
            /\ UNCHANGED <<serial_input, user_operations>>
       ELSE /\ user_operations' = Append(user_operations, "toggle_serial_input")
            /\ serial_input' = IF serial_input = "high" THEN "low" ELSE "high"
            /\ error' = "none"

\* flash_sim::toggle_clock
toggle_clock ==
    /\ call' = "toggle_clock"
    /\ UNCHANGED <<chip_enable, serial_input, serial_output, write_enabled, data>>
    /\ CASE chip_state = "deselected" ->
              /\ error' = "InvalidTransition"
              /\ UNCHANGED <<chip_state, bit_index, instruction_register,
                             operation, user_operations>>
         [] chip_state = "command" ->
              \* --_bit_index on a std::uint8_t wraps from 0 to 255.
              LET nb == (bit_index - 1) % ByteMod IN
              \E mask \in ByteShiftLeft(PinBit(serial_input), nb) :
              \E garbage \in UninitAddress :
                 LET ir == OrMask(instruction_register, mask)
                     r == make_operation(ir, write_enabled, garbage)
                 IN
                 /\ user_operations' = Append(user_operations, "toggle_clock")
                 /\ bit_index' = nb
                 /\ instruction_register' = ir
                 /\ IF nb # 0
                    THEN /\ error' = "none"
                         /\ UNCHANGED <<operation, chip_state>>
                    ELSE /\ error' = r.error
                         /\ IF r.error = "none"
                            THEN /\ operation' = r.op
                                 /\ chip_state' = "operation"
                            ELSE UNCHANGED <<operation, chip_state>>
         [] chip_state = "operation" ->
              IF operation = NoOperation
              THEN /\ error' = "NoOperation"
                   /\ UNCHANGED <<chip_state, bit_index, instruction_register,
                                  operation, user_operations>>
              ELSE LET r == operation_toggle_clock(operation, serial_input, data) IN
                   /\ user_operations' = Append(user_operations, "toggle_clock")
                   /\ operation' = r.op
                   /\ error' = r.error
                   /\ UNCHANGED <<chip_state, bit_index, instruction_register>>

\* flash_sim::wait_for_write_complete: empty body.
wait_for_write_complete ==
    /\ call' = "wait_for_write_complete"
    /\ error' = "none"
    /\ UNCHANGED <<chip_enable, serial_input, serial_output, chip_state, write_enabled,
                   bit_index, instruction_register, operation, data, user_operations>>

(***************************************************************************)
(* A second flash_sim object, as a value.  perform_user_operation applies  *)
(* one logged token to it through the same methods; the result is the set  *)
(* of outcomes [chip, error] the call can have (more than one where the    *)
(* call reads an uninitialized member or shifts by an undefined count).    *)
(***************************************************************************)
\* flash_sim::flash_sim(num_bytes), as an object value.
new_flash_sim(num_bytes) ==
    [chip_enable |-> "high", serial_input |-> "low", serial_output |-> "low",
     chip_state |-> "deselected", write_enabled |-> FALSE, bit_index |-> 0,
     instruction_register |-> 0, operation |-> NoOperation,
     data |-> [i \in 0..(num_bytes - 1) |-> 0], user_operations |-> <<>>]

\* flash_sim::toggle_chip_enable on the object c.
perform_toggle_chip_enable(c) ==
    CASE c.chip_state = "deselected" ->
            {[chip |-> [c EXCEPT
                           !.user_operations = Append(@, "toggle_chip_enable"),
                           !.chip_state = "command",
                           !.bit_index = InstructionBits],
              error |-> "none"]}
      [] c.chip_state = "command" ->
            {[chip |-> c, error |-> "InvalidTransition"]}
      [] c.chip_state = "operation" ->
            IF c.operation = NoOperation
            THEN {[chip |-> c, error |-> "NoOperation"]}
            ELSE LET r == operation_toggle_chip_enable(c.operation, c.data, c.write_enabled)
                     logged == [c EXCEPT
                                   !.user_operations = Append(@, "toggle_chip_enable"),
                                   !.data = r.data,
                                   !.write_enabled = r.write_enabled]
                 IN {[chip |-> IF r.error = "none"
                               THEN [logged EXCEPT !.operation = NoOperation,
                                                   !.instruction_register = 0,
                                                   !.chip_state = "deselected"]
                               ELSE logged,
                      error |-> r.error]}

\* flash_sim::toggle_serial_input on the object c.
perform_toggle_serial_input(c) ==
    IF c.chip_state = "deselected"
    THEN {[chip |-> c, error |-> "InvalidTransition"]}
    ELSE IF /\ c.user_operations # <<>>
            /\ c.user_operations[Len(c.user_operations)] = "toggle_serial_input"
    THEN {[chip |-> c, error |-> "InvalidTransition"]}
    ELSE {[chip |-> [c EXCEPT
                        !.user_operations = Append(@, "toggle_serial_input"),
                        !.serial_input = IF @ = "high" THEN "low" ELSE "high"],
           error |-> "none"]}

\* flash_sim::toggle_clock on the object c.
perform_toggle_clock(c) ==
    CASE c.chip_state = "deselected" ->
            {[chip |-> c, error |-> "InvalidTransition"]}
      [] c.chip_state = "command" ->
            LET nb == (c.bit_index - 1) % ByteMod IN
            {LET ir == OrMask(c.instruction_register, mask)
                 r == make_operation(ir, c.write_enabled, garbage)
                 shifted == [c EXCEPT
                                !.user_operations = Append(@, "toggle_clock"),
                                !.bit_index = nb,
                                !.instruction_register = ir]
             IN IF nb # 0
                THEN [chip |-> shifted, error |-> "none"]
                ELSE [chip |-> IF r.error = "none"
                               THEN [shifted EXCEPT !.operation = r.op,
                                                    !.chip_state = "operation"]
                               ELSE shifted,
                      error |-> r.error] :
             mask \in ByteShiftLeft(PinBit(c.serial_input), nb),
             garbage \in UninitAddress}
      [] c.chip_state = "operation" ->
            IF c.operation = NoOperation
            THEN {[chip |-> c, error |-> "NoOperation"]}
            ELSE LET r == operation_toggle_clock(c.operation, c.serial_input, c.data) IN
                 {[chip |-> [c EXCEPT
                                !.user_operations = Append(@, "toggle_clock"),
                                !.operation = r.op],
                   error |-> r.error]}

\* flash_sim::wait_for_write_complete on the object c: empty body.
perform_wait_for_write_complete(c) == {[chip |-> c, error |-> "none"]}

\* flash::perform_user_operation(op) on the object c.
perform_user_operation(c, op) ==
    CASE op = "toggle_chip_enable" -> perform_toggle_chip_enable(c)
      [] op = "toggle_serial_input" -> perform_toggle_serial_input(c)
      [] op = "toggle_clock" -> perform_toggle_clock(c)
      [] op = "wait_for_write_complete" -> perform_wait_for_write_complete(c)

(***************************************************************************)
(* The caller.  It owns one flash_sim and calls its methods, directly or   *)
(* through the helpers clock_in_data / clock_out_data of flash.ipp, whose  *)
(* loops run one pin call per step.  An exception thrown by a pin call     *)
(* leaves the helper (the frame is unwound).                               *)
(*                                                                         *)
(* The caller speaks the command protocol (select, opcode byte, address,   *)
(* data bytes in or out, deselect) with any opcode byte at any time, so    *)
(* commands the chip must reject are sent too.  Once a call has failed or  *)
(* the caller has strayed from the protocol it makes only bare pin calls,  *)
(* in any chip state, as many as the run's budget of strays allows.        *)
(***************************************************************************)
\* No helper is running.
NoHelper == [kind |-> "none", num_bits |-> 0, data |-> 0, bit |-> 0,
             pc |-> "none", value |-> 0]

\* Bytes sent as an opcode: the four opcodes and a byte that is none.
OpcodeBytes == {2, 3, 6, 96, 171}
\* Bytes sent as page data: one with the top bit set, one with it clear.
DataBytes == {171, 6}
\* Addresses sent: one below and one at the offset WriteBufferSize.
Addresses == {16, 256}

Idle == helper.kind = "none"
\* The caller is following the protocol: nothing failed, nothing strayed.
InProtocol == Idle /\ failures = 0 /\ strays = 0
\* The active operation has its address (or takes none).
AddressComplete == chip_state = "operation" /\ operation.addr_bit_index = 0

\* for (auto op : first.get_user_operations()) second.perform_user_operation(op),
\* run in step with the first chip: each token the step appended to the log
\* of the first chip is applied to the second.  An exception ends the replay.
Replay ==
    IF /\ budget.replay
       /\ ~replica.failed
       /\ Len(user_operations') = Len(user_operations) + 1
    THEN \E o \in perform_user_operation(replica.chip,
                                         user_operations'[Len(user_operations')]) :
            replica' = [chip |-> o.chip, failed |-> o.error # "none"]
    ELSE replica' = replica

\* Bookkeeping of every step that calls a pin method.
Count ==
    /\ UNCHANGED budget
    /\ Replay
    /\ failures' = IF error' # "none" THEN failures + 1 ELSE failures
    /\ commands' = IF chip_state = "deselected" /\ chip_state' = "command"
                   THEN commands + 1 ELSE commands

\* What the caller remembers across a chip-enable toggle it made.
Remember ==
    /\ history' = IF chip_state = "operation" /\ chip_state' = "deselected"
                  THEN Append(history, sent) ELSE history
    /\ sent' = IF chip_state = "deselected" /\ chip_state' = "command"
               THEN <<>> ELSE sent
    /\ received' = IF chip_state = "deselected" /\ chip_state' = "command"
                   THEN <<>> ELSE received

\* A bare pin call is part of the protocol only for chip enable, to select
\* the chip and to end a command whose address is complete.
Stray == strays' = strays + 1 /\ UNCHANGED transfers
Straying == Idle /\ strays < budget.strays

CallToggleChipEnable ==
    /\ chip_state = "deselected" => commands < budget.commands
    /\ \/ /\ InProtocol
          /\ chip_state = "deselected" \/ AddressComplete
          /\ UNCHANGED <<strays, transfers>>
       \/ /\ Straying
          /\ ~(InProtocol /\ (chip_state = "deselected" \/ AddressComplete))
          /\ Stray
    /\ toggle_chip_enable
    /\ Count
    /\ Remember
    /\ UNCHANGED helper

CallToggleSerialInput ==
    /\ Straying
    /\ toggle_serial_input
    /\ Count
    /\ Stray
    /\ UNCHANGED <<helper, sent, received, history>>

CallToggleClock ==
    /\ Straying
    /\ toggle_clock
    /\ Count
    /\ Stray
    /\ UNCHANGED <<helper, sent, received, history>>

CallWaitForWriteComplete ==
    /\ Straying
    /\ wait_for_write_complete
    /\ Count
    /\ Stray
    /\ UNCHANGED <<helper, sent, received, history>>

\* Entry of clock_in_data<num_bits>(data): int bit = num_bits.
EnterClockInData(num_bits, d) ==
    /\ helper' = [kind |-> "clock_in_data", num_bits |-> num_bits, data |-> d,
                  bit |-> num_bits, pc |-> "test", value |-> 0]
    /\ call' = "none"
    /\ error' = "none"
    /\ UNCHANGED <<chip, user_operations, sent, received, history, commands,
                   strays, failures, budget, replica>>

\* clock_in_data<8>(opcode) right after the chip select.
CallClockInOpcode ==
    /\ InProtocol
    /\ chip_state = "command" /\ bit_index = InstructionBits
    /\ \E b \in OpcodeBytes : EnterClockInData(InstructionBits, b)
    /\ UNCHANGED transfers

\* clock_in_data<12>(address) right after the opcode of a page write or read.
CallClockInAddress ==
    /\ InProtocol
    /\ chip_state = "operation" /\ operation.addr_bit_index = AddressBits
    /\ transfers < budget.transfers
    /\ \E a \in Addresses : EnterClockInData(AddressBits, a)
    /\ transfers' = transfers + 1

\* clock_in_data<8>(byte) for the next data byte of a page write.
CallClockInByte ==
    /\ InProtocol
    /\ AddressComplete /\ operation.kind = "write"
    /\ transfers < budget.transfers
    /\ \E b \in DataBytes : EnterClockInData(8, b)
    /\ transfers' = transfers + 1

\* bool bit_set = data & (1 << (bit - 1)), and the test of the if statement.
clock_in_data_must_toggle(h, si) ==
    LET bit_set == Bit(h.data, h.bit - 1) = 1 IN
    \/ (bit_set /\ si = "low")
    \/ (~bit_set /\ si = "high")

\* clock_in_data: the toggle_serial_input() call of one loop iteration.
ClockInDataToggleSerialInput ==
    /\ helper.kind = "clock_in_data"
    /\ helper.pc = "test"
    /\ clock_in_data_must_toggle(helper, serial_input)
    /\ toggle_serial_input
    /\ Count
    /\ helper' = IF error' = "none" THEN [helper EXCEPT !.pc = "clock"] ELSE NoHelper
    /\ UNCHANGED <<sent, received, history, strays, transfers>>

\* clock_in_data: the toggle_clock() call of one loop iteration, and --bit.
ClockInDataToggleClock ==
    /\ helper.kind = "clock_in_data"
    /\ helper.pc = "test" => ~clock_in_data_must_toggle(helper, serial_input)
    /\ toggle_clock
    /\ Count
    /\ helper' = IF error' = "none" /\ helper.bit - 1 # 0
                 THEN [helper EXCEPT !.bit = @ - 1, !.pc = "test"]
                 ELSE NoHelper
    /\ sent' = IF error' = "none" /\ helper.bit - 1 = 0
               THEN Append(sent, helper.data) ELSE sent
    /\ UNCHANGED <<received, history, strays, transfers>>

\* Entry of clock_out_data<8>() for the next byte of a read:
\* data_type value{0}; int bit = num_bits.
CallClockOutData ==
    /\ InProtocol
    /\ AddressComplete /\ operation.kind = "read"
    /\ transfers < budget.transfers
    /\ helper' = [kind |-> "clock_out_data", num_bits |-> 8, data |-> 0,
                  bit |-> 8, pc |-> "sample", value |-> 0]
    /\ call' = "none"
    /\ error' = "none"
    /\ transfers' = transfers + 1
    /\ UNCHANGED <<chip, user_operations, sent, received, history, commands,
                   strays, failures, budget, replica>>

\* if (get_serial_output() == pin_state::high) value |= 1 << (bit - 1);
clock_out_data_sample(h, so) ==
    OrMask(h.value, PinBit(so) * (2 ^ (h.bit - 1)))

\* clock_out_data: one loop iteration (sample, toggle_clock(), --bit) and,
\* after the last one, the return of value.
ClockOutDataStep ==
    /\ helper.kind = "clock_out_data"
    /\ toggle_clock
    /\ Count
    /\ LET v == clock_out_data_sample(helper, serial_output) IN
       /\ helper' = IF error' = "none" /\ helper.bit - 1 # 0
                    THEN [helper EXCEPT !.bit = @ - 1, !.value = v]
                    ELSE NoHelper
       /\ received' = IF error' = "none" /\ helper.bit - 1 = 0
                      THEN Append(received, v) ELSE received
    /\ UNCHANGED <<sent, history, strays, transfers>>

\* The caller has constructed its chip and called nothing yet.
Start ==
    /\ flash_sim(Capacity)
    /\ call = "none"
    /\ error = "none"
    /\ helper = NoHelper
    /\ sent = <<>>
    /\ received = <<>>
    /\ history = <<>>
    /\ commands = 0
    /\ transfers = 0
    /\ strays = 0
    /\ failures = 0

\* No second chip has been constructed.
NoReplica == [chip |-> NoOperation, failed |-> TRUE]

Init ==
    /\ Start
    /\ replica = NoReplica
    /\ budget = [commands |-> MaxCommands, transfers |-> MaxTransfers,
                 strays |-> MaxStrays, replay |-> FALSE]

InitLong ==
    /\ Start
    /\ replica = NoReplica
    /\ budget = [commands |-> LongCommands, transfers |-> LongTransfers,
                 strays |-> LongStrays, replay |-> FALSE]

\* flash_sim second(Capacity) beside the first chip.
InitReplay ==
    /\ Start
    /\ replica = [chip |-> new_flash_sim(Capacity), failed |-> FALSE]
    /\ budget = [commands |-> ReplayCommands, transfers |-> ReplayTransfers,
                 strays |-> ReplayStrays, replay |-> TRUE]

\* A caller that leaves the protocol for several bare pin calls in a row.
InitStray ==
    /\ Start
    /\ replica = NoReplica
    /\ budget = [commands |-> StrayCommands, transfers |-> StrayTransfers,
                 strays |-> StrayStrays, replay |-> FALSE]

\* The object after a call of the method of token op that returned, where
\* the heap block behind a new operation held zeroes.
performed(c, op) ==
    (CHOOSE o \in perform_user_operation(c, op) :
        o.error = "none" /\ o.chip.operation.address < 2 ^ AddressBits).chip

\* F applied to the value of v, which is computed once.
Then(v, F(_)) == CHOOSE r \in {F(x) : x \in {v}} : TRUE

\* One iteration of the loop of clock_in_data on the object c: the
\* toggle_serial_input() call if the bit differs from the pin, toggle_clock().
clock_in_data_iteration(c, bit, d) ==
    IF clock_in_data_must_toggle([data |-> d, bit |-> bit], c.serial_input)
    THEN performed(performed(c, "toggle_serial_input"), "toggle_clock")
    ELSE performed(c, "toggle_clock")

\* clock_in_data<num_bits>(data) run to its end on the object c, from the
\* loop iteration of the given bit.
RECURSIVE clock_in_data_on(_, _, _)
clock_in_data_on(c, bit, d) ==
    IF bit = 0
    THEN c
    ELSE Then(clock_in_data_iteration(c, bit, d),
              LAMBDA next : clock_in_data_on(next, bit - 1, d))

\* A command without address: select, opcode, deselect.
short_command_on(c, opcode) ==
    Then(performed(c, "toggle_chip_enable"), LAMBDA selected :
    Then(clock_in_data_on(selected, InstructionBits, opcode), LAMBDA clocked :
    performed(clocked, "toggle_chip_enable")))

\* The n-th data byte of the page the caller writes.
PageByte(n) == IF n % 2 = 1 THEN 171 ELSE 6

\* The data bytes first..last of the page clocked into the object c, one
\* clock_in_data<8> after the other (the range is halved to keep the
\* evaluation shallow).
RECURSIVE clock_in_page_on(_, _, _)
clock_in_page_on(c, first, last) ==
    IF first > last THEN c
    ELSE IF first = last THEN clock_in_data_on(c, 8, PageByte(first))
    ELSE LET mid == (first + last) \div 2 IN
         Then(clock_in_page_on(c, first, mid),
              LAMBDA half : clock_in_page_on(half, mid + 1, last))

\* The chip after write enable, chip erase, write enable, and a page write
\* at address a that has clocked in n data bytes and is still selected.
page_write_in_progress(a, n) ==
    Then(short_command_on(new_flash_sim(Capacity), 6), LAMBDA enabled :
    Then(short_command_on(enabled, 96), LAMBDA erased :
    Then(short_command_on(erased, 6), LAMBDA enabled_again :
    Then(performed(enabled_again, "toggle_chip_enable"), LAMBDA selected :
    Then(clock_in_data_on(selected, InstructionBits, 2), LAMBDA write :
    Then(clock_in_data_on(write, AddressBits, a), LAMBDA addressed :
    clock_in_page_on(addressed, 1, n)))))))

\* A caller that has erased the chip and is one data byte short of a full
\* write buffer in a page write.
InitPage ==
    \E a \in Addresses :
    \E c \in {page_write_in_progress(a, WriteBufferSize - 1)} :
        /\ chip_enable = c.chip_enable
        /\ serial_input = c.serial_input
        /\ serial_output = c.serial_output
        /\ chip_state = c.chip_state
        /\ write_enabled = c.write_enabled
        /\ bit_index = c.bit_index
        /\ instruction_register = c.instruction_register
        /\ operation = c.operation
        /\ data = c.data
        /\ user_operations = c.user_operations
        /\ call = "toggle_clock"
        /\ error = "none"
        /\ helper = NoHelper
        /\ sent = <<2, a>> \o [n \in 1..(WriteBufferSize - 1) |-> PageByte(n)]
        /\ received = <<>>
        /\ history = << <<6>>, <<96>>, <<6>> >>
        /\ commands = 4
        /\ transfers = WriteBufferSize
        /\ strays = 0
        /\ failures = 0
        /\ replica = NoReplica
        /\ budget = [commands |-> 4 + PageCommands,
                     transfers |-> WriteBufferSize + PageTransfers,
                     strays |-> PageStrays, replay |-> FALSE]

Next ==
    \/ CallToggleChipEnable
    \/ CallToggleSerialInput
    \/ CallToggleClock
    \/ CallWaitForWriteComplete
    \/ CallClockInOpcode
    \/ CallClockInAddress
    \/ CallClockInByte
    \/ ClockInDataToggleSerialInput
    \/ ClockInDataToggleClock
    \/ CallClockOutData
    \/ ClockOutDataStep

Spec == Init /\ [][Next]_vars

SpecLong == InitLong /\ [][Next]_vars

SpecReplay == InitReplay /\ [][Next]_vars

SpecStray == InitStray /\ [][Next]_vars

SpecPage == InitPage /\ [][Next]_vars

(***************************************************************************)
(* Properties.                                                             *)
(***************************************************************************)
\* The step called a pin method of the chip.
PinCall == call' # "none"
\* The step called the named method.
Called(method) == call' = method
\* The step called one of the three pin toggles.
Toggle == call' \in {"toggle_chip_enable", "toggle_serial_input", "toggle_clock"}
\* pin_state of a bit.
PinOf(b) == IF b = 1 THEN "high" ELSE "low"
\* The running helper is clock_in_data<8>(opcode), entered right after a
\* chip select.
ClockingOpcode(opcode) ==
    /\ helper.kind = "clock_in_data"
    /\ helper.num_bits = InstructionBits
    /\ helper.data = opcode
    /\ chip_state = "command"
    /\ sent = <<>>
\* The command in progress consisted of clock_in_data<8>(opcode) alone.
SentOpcodeOnly(opcode) ==
    /\ chip_state = "operation"
    /\ Idle
    /\ sent = <<opcode>>
    /\ received = <<>>
\* The last command the caller ended.
LastCommand == IF history = <<>> THEN <<>> ELSE history[Len(history)]
\* The data bytes of a command <<opcode, address, byte, ...>>.
DataOf(command) == SubSeq(command, 3, Len(command))
\* The command in progress is a page write: the caller, following the
\* protocol, sent opcode 0x02, an address and zero or more whole data bytes,
\* and the chip holds exactly the address sent (_address started clean).
PageWriteSent ==
    /\ InProtocol
    /\ chip_state = "operation"
    /\ Len(sent) >= 2
    /\ sent[1] = 2
    /\ operation.address = sent[2]
\* The step is the chip-enable toggle that completes that page write.
PageWriteCompletion ==
    /\ PageWriteSent
    /\ Called("toggle_chip_enable")
    /\ error' = "none"
\* The run so far is: ..., write enable, chip erase, write enable, page write
\* of B at A (all completed), then a read at A with Len(B) bytes clocked out.
RoundTripDone ==
    /\ failures = 0
    /\ strays = 0
    /\ Idle
    /\ Len(history) >= 4
    /\ history[Len(history) - 3] = <<6>>
    /\ history[Len(history) - 2] = <<96>>
    /\ history[Len(history) - 1] = <<6>>
    /\ Len(LastCommand) >= 3
    /\ LastCommand[1] = 2
    /\ chip_state = "operation"
    /\ sent = <<3, LastCommand[2]>>
    /\ operation.address = LastCommand[2]
    /\ Len(received) = Len(DataOf(LastCommand))

\* C1: round trip. After a completed write enable + chip erase and a completed
\* write enable + page write of bytes B at address A, a read at A that clocks
\* out Len(B) bytes with clock_out_data returns exactly B.
C1_RoundTrip == RoundTripDone => received = DataOf(LastCommand)

\* C2: the chip-enable toggle that completes a page write of n whole bytes B
\* at address A leaves MemoryArray[A + i] = B[i] for every i < n and the
\* write-enable flag clear.
C2_PageWriteCommits ==
    [][ PageWriteCompletion
        => /\ \A i \in 1..Len(DataOf(sent)) :
                 /\ sent[2] + i - 1 \in DOMAIN data'
                 /\ data'[sent[2] + i - 1] = DataOf(sent)[i]
           /\ ~write_enabled'
      ]_vars

\* C3: the chip-enable toggle that completes a page write of n bytes at
\* address A leaves every byte of MemoryArray outside [A, A + n) unchanged.
C3_PageWriteFrame ==
    [][ PageWriteCompletion
        => /\ DOMAIN data' = DOMAIN data
           /\ \A j \in DOMAIN data :
                 (j < sent[2] \/ j >= sent[2] + Len(DataOf(sent)))
                    => data'[j] = data[j]
      ]_vars

\* C4: during a read at address A, clock toggle number k after the address
\* (k = 0, 1, ...) drives the serial-output pin to bit 7 - k mod 8 of
\* MemoryArray[A + k div 8], and no toggle of the read changes MemoryArray.
\* The toggles are those of clock_out_data<8>: with r bytes returned and the
\* loop at `bit`, the toggle is number 8 * r + (8 - bit).  Stated for the
\* reads in which the chip holds exactly the address sent.
C4_ReadDrivesSerialOutput ==
    [][ ( /\ helper.kind = "clock_out_data"
          /\ failures = 0
          /\ strays = 0
          /\ sent[1] = 3
          /\ operation.address = sent[2]
          /\ Called("toggle_clock") )
        => /\ error' = "none"
           /\ data' = data
           /\ sent[2] + Len(received) \in DOMAIN data
           /\ serial_output' = PinOf(Bit(data[sent[2] + Len(received)], helper.bit - 1))
      ]_vars

\* C5: on a deselected chip whose write-enable flag is clear, the sequence
\* toggle chip-enable, clock_in_data<8>(0x06), toggle chip-enable runs without
\* a failure and ends deselected with the flag set and the memory unchanged.
\* Stated per step: the select succeeds; no pin call of the helper fails or
\* touches memory or the flag, and the helper leaves a write-enable operation
\* active; the closing toggle succeeds, sets the flag and deselects.
C5_WriteEnableSequence ==
    [][ /\ (chip_state = "deselected" /\ ~write_enabled /\ Called("toggle_chip_enable"))
           => /\ error' = "none"
              /\ chip_state' = "command"
              /\ data' = data
              /\ ~write_enabled'
        /\ (ClockingOpcode(6) /\ ~write_enabled /\ PinCall)
           => /\ error' = "none"
              /\ data' = data
              /\ ~write_enabled'
              /\ helper' = NoHelper =>
                    chip_state' = "operation" /\ operation'.kind = "write_enable"
        /\ (SentOpcodeOnly(6) /\ ~write_enabled /\ Called("toggle_chip_enable"))
           => /\ error' = "none"
              /\ write_enabled'
              /\ chip_state' = "deselected"
              /\ data' = data
      ]_vars

\* C5 witness: a write-enable command, not the first command of the run, has
\* just been ended and the flag is set.
C5_Witness ==
    /\ call = "toggle_chip_enable"
    /\ error = "none"
    /\ chip_state = "deselected"
    /\ write_enabled
    /\ Len(history) >= 3
    /\ LastCommand = <<6>>

\* C6: on a deselected chip whose write-enable flag is set, the sequence
\* toggle chip-enable, clock_in_data<8>(0x60), toggle chip-enable runs without
\* a failure and ends deselected with every byte 0xFF and the flag clear.
C6_ChipEraseSequence ==
    [][ /\ (chip_state = "deselected" /\ write_enabled /\ Called("toggle_chip_enable"))
           => /\ error' = "none"
              /\ chip_state' = "command"
              /\ write_enabled'
        /\ (ClockingOpcode(96) /\ write_enabled /\ PinCall)
           => /\ error' = "none"
              /\ write_enabled'
              /\ helper' = NoHelper =>
                    chip_state' = "operation" /\ operation'.kind = "chip_erase"
        /\ (SentOpcodeOnly(96) /\ write_enabled /\ Called("toggle_chip_enable"))
           => /\ error' = "none"
              /\ ~write_enabled'
              /\ chip_state' = "deselected"
              /\ DOMAIN data' = DOMAIN data
              /\ \A i \in DOMAIN data' : data'[i] = ErasedByte
      ]_vars

\* C6 witness: a chip erase has just been ended on a chip that held bytes
\* other than 0x00 and 0xFF before (a page write came first).
C6_Witness ==
    /\ call = "toggle_chip_enable"
    /\ error = "none"
    /\ chip_state = "deselected"
    /\ LastCommand = <<96>>
    /\ \E k \in 1..Len(history) : Len(history[k]) = 3 /\ history[k][1] = 2
    /\ \A i \in DOMAIN data : data[i] = ErasedByte

\* C7: the clock toggle that completes opcode 0x02 or 0x60 while the
\* write-enable flag is clear fails with WriteEnableRequired and leaves the
\* memory as it was; and no pin call made while the flag is clear changes the
\* memory, so neither does any further toggle of the rejected command.
C7_WriteEnableRequired ==
    [][ /\ ( /\ chip_state = "command"
             /\ ~write_enabled
             /\ Called("toggle_clock")
             /\ bit_index' = 0
             /\ instruction_register' \in {2, 96} )
           => /\ error' = "WriteEnableRequired"
              /\ data' = data
              /\ ~write_enabled'
        /\ (~write_enabled /\ PinCall) => data' = data
      ]_vars

\* C7 witness: on an erased chip an opcode 0x02 or 0x60 was rejected and one
\* more clock toggle of the same command has been made (the bit counter has
\* wrapped).
C7_Witness ==
    /\ chip_state = "command"
    /\ ~write_enabled
    /\ failures = 1
    /\ call = "toggle_clock"
    /\ error = "none"
    /\ bit_index = ByteMod - 1
    /\ instruction_register \in {2, 96}
    /\ data[0] = ErasedByte

\* C8: in a page write whose address A is complete, the clock toggle for the
\* first bit of data byte number i fails with NonErasedByteWrite whenever
\* MemoryArray[A + i] is not 0xFF, whatever the level of serial input, and
\* leaves the write buffer (the whole operation) as it was.
C8_NonErasedByteWrite ==
    [][ ( /\ chip_state = "operation"
          /\ operation.kind = "write"
          /\ operation.addr_bit_index = 0
          /\ operation.bit_index = 8
          /\ operation.current_byte < WriteBufferSize
          /\ operation.address + operation.current_byte \in DOMAIN data
          /\ data[operation.address + operation.current_byte] # ErasedByte
          /\ Called("toggle_clock") )
        => /\ error' = "NonErasedByteWrite"
           /\ operation' = operation
           /\ data' = data
      ]_vars

\* C8 witness: a data byte whose first bit is 0 has just been refused at a
\* byte that an earlier page write had set to a value other than 0x00.
C8_Witness ==
    /\ error = "NonErasedByteWrite"
    /\ call = "toggle_clock"
    /\ serial_input = "low"
    /\ operation.kind = "write"
    /\ data[operation.address + operation.current_byte] \notin {0, ErasedByte}

\* C9: every byte of MemoryArray that the completion of a page write changes
\* held 0xFF immediately before the completion.
C9_EraseBeforeWrite ==
    [][ ( /\ chip_state = "operation"
          /\ operation.kind = "write"
          /\ Called("toggle_chip_enable")
          /\ error' = "none" )
        => \A j \in DOMAIN data :
              (j \in DOMAIN data' /\ data'[j] # data[j]) => data[j] = ErasedByte
      ]_vars

\* C10: a pin toggle that fails leaves the operation log as it was, a pin
\* toggle that succeeds appends exactly its own token, and nothing else
\* changes the log.
C10_LogOnlyOnSuccess ==
    [][ /\ (Toggle /\ error' # "none") => user_operations' = user_operations
        /\ (Toggle /\ error' = "none") => user_operations' = Append(user_operations, call')
        /\ ~Toggle => user_operations' = user_operations
      ]_vars

\* C11: a pin toggle that fails leaves the chip exactly as it was: chip
\* state, instruction register and its bit counter, the active operation
\* with its progress, the write-enable flag, the memory and the three pins.
C11_FailedToggleIsAtomic ==
    [][ (Toggle /\ error' # "none") => chip' = chip ]_vars

\* C12: the eighth clock toggle of a command that completes a byte other
\* than 0x02, 0x03, 0x06, 0x60 fails with UnknownOpcode and leaves the chip
\* in Command; a chip-enable toggle made after that succeeds and brings the
\* chip back to Deselected.
C12_UnknownOpcodeRecovery ==
    [][ /\ ( /\ chip_state = "command"
             /\ bit_index = 1
             /\ Called("toggle_clock")
             /\ operation_map(instruction_register') = "unknown" )
           => /\ error' = "UnknownOpcode"
              /\ chip_state' = "command"
        /\ ( /\ chip_state = "command"
             /\ error = "UnknownOpcode"
             /\ Called("toggle_chip_enable") )
           => /\ error' = "none"
              /\ chip_state' = "deselected"
      ]_vars

\* C13: in every state with the chip in Operation, whatever the operation
\* and its progress, a chip-enable toggle ends the operation: afterwards the
\* chip is Deselected and has no active operation.  Stated for the
\* operations that are not in the middle of their address, where the toggle
\* is not a protocol violation of the caller.
C13_ChipEnableFinalizes ==
    [][ (AddressComplete /\ Called("toggle_chip_enable"))
        => /\ chip_state' = "deselected"
           /\ operation' = NoOperation
      ]_vars

C15_ChipEnablePin ==
    (chip_enable = "high") <=> (chip_state = "deselected")

\* Every byte of the memory is erased.
AllErased(d) == \A i \in DOMAIN d : d[i] = ErasedByte
\* The last n commands the caller ended (n <= Len(history)).
LastCommands(n) == SubSeq(history, Len(history) - n + 1, Len(history))
\* The caller, following the protocol, has completed a write enable and a
\* chip erase, then a second write enable, and has sent the opcode of a
\* second chip erase.
SecondEraseSent ==
    /\ InProtocol
    /\ SentOpcodeOnly(96)
    /\ Len(history) >= 3
    /\ LastCommands(3) = << <<6>>, <<96>>, <<6>> >>

\* C17: erase idempotence. When two (write enable, chip erase) pairs are
\* performed in succession, the memory is all 0xFF after the first pair and
\* the chip-enable toggle that completes the second pair succeeds and leaves
\* the memory exactly as the first pair left it, with the flag clear again.
C17_EraseIdempotent ==
    [][ (SecondEraseSent /\ Called("toggle_chip_enable"))
        => /\ error' = "none"
           /\ AllErased(data)
           /\ data' = data
           /\ ~write_enabled'
      ]_vars

\* C17 witness: two (write enable, chip erase) pairs in succession have just
\* been completed on a chip that started with every byte 0x00.
C17_Witness ==
    /\ call = "toggle_chip_enable"
    /\ error = "none"
    /\ chip_state = "deselected"
    /\ failures = 0
    /\ strays = 0
    /\ history = << <<6>>, <<96>>, <<6>>, <<96>> >>
    /\ AllErased(data)
    /\ ~write_enabled

\* C18: wait_for_write_complete, called in any chip state, returns without
\* failure, leaves the chip (state, instruction register, operation, flag,
\* memory, pins) unchanged and appends exactly one token of its own to the
\* operation log.
C18_WaitIsLoggedNoOp ==
    [][ Called("wait_for_write_complete")
        => /\ error' = "none"
           /\ chip' = chip
           /\ user_operations' = Append(user_operations, "wait_for_write_complete")
      ]_vars

\* C20: the write-enable flag goes from false to true only in a chip-enable
\* toggle that completes a write-enable operation, and from true to false
\* only in a chip-enable toggle that completes a page write or a chip erase;
\* no other call, and no call that fails, changes the flag.
C20_FlagChanges ==
    [][ /\ (~write_enabled /\ write_enabled')
           => /\ Called("toggle_chip_enable")
              /\ error' = "none"
              /\ chip_state = "operation"
              /\ operation.kind = "write_enable"
              /\ chip_state' = "deselected"
        /\ (write_enabled /\ ~write_enabled')
           => /\ Called("toggle_chip_enable")
              /\ error' = "none"
              /\ chip_state = "operation"
              /\ operation.kind \in {"write", "chip_erase"}
              /\ chip_state' = "deselected"
      ]_vars

\* C20 witness: the flag, set by a write enable, is still set after a read
\* command has been completed.
C20_Witness ==
    /\ call = "toggle_chip_enable"
    /\ error = "none"
    /\ chip_state = "deselected"
    /\ write_enabled
    /\ Len(LastCommand) = 2
    /\ LastCommand[1] = 3

\* The opcode table of the specification.
OpcodeKind == (2 :> "write") @@ (3 :> "read") @@ (6 :> "write_enable")
              @@ (96 :> "chip_erase")
\* The step is a clock toggle that consumes one of the eight opcode bits.
OpcodeBitToggle ==
    /\ chip_state = "command"
    /\ bit_index \in 1..InstructionBits
    /\ Called("toggle_clock")
\* The select clears the register and arms eight bits, and each of the eight
\* clock toggles that follow sets the next bit, MSB first, to the level of
\* serial input.
OpcodeBitsShiftedIn ==
    /\ (chip_state = "deselected" /\ Called("toggle_chip_enable") /\ error' = "none")
       => /\ instruction_register' = 0
          /\ bit_index' = InstructionBits
    /\ OpcodeBitToggle
       => /\ bit_index' = bit_index - 1
          /\ instruction_register' =
                OrMask(instruction_register, PinBit(serial_input) * (2 ^ (bit_index - 1)))
          /\ bit_index > 1 => (error' = "none" /\ chip_state' = "command")
\* The eighth toggle found no entry for the assembled byte.
OpcodeUnknown ==
    (OpcodeBitToggle /\ bit_index = 1 /\ instruction_register' \notin DOMAIN OpcodeKind)
    => /\ error' = "UnknownOpcode"
       /\ chip_state' = "command"
\* The eighth toggle installs the operation the table names.
OpcodeSelected ==
    /\ error' = "none"
    /\ chip_state' = "operation"
    /\ operation'.kind = OpcodeKind[instruction_register']

\* C19 as stated: after the select the register is zero, eight clock toggles
\* are shifted in MSB first, and on the eighth the byte 0x02, 0x03, 0x06 or
\* 0x60 selects its operation and the chip enters Operation, while every
\* other byte fails with UnknownOpcode.
C19_OpcodeDecodingAsStated ==
    [][ /\ OpcodeBitsShiftedIn
        /\ OpcodeUnknown
        /\ (OpcodeBitToggle /\ bit_index = 1 /\ instruction_register' \in DOMAIN OpcodeKind)
           => OpcodeSelected
      ]_vars

\* C19, amended: as above, except that on the eighth toggle the bytes 0x02
\* and 0x60 select their operation and enter Operation only when the
\* write-enable flag is set; with the flag clear that toggle fails with
\* WriteEnableRequired and the chip stays in Command without an operation.
C19_OpcodeDecoding ==
    [][ /\ OpcodeBitsShiftedIn
        /\ OpcodeUnknown
        /\ ( /\ OpcodeBitToggle
             /\ bit_index = 1
             /\ instruction_register' \in DOMAIN OpcodeKind )
           => IF instruction_register' \in {2, 96} /\ ~write_enabled
              THEN /\ error' = "WriteEnableRequired"
                   /\ chip_state' = "command"
                   /\ operation' = NoOperation
              ELSE OpcodeSelected
      ]_vars

\* C19 witness: the eighth clock toggle of a command, with serial input
\* low, has just assembled 0x60 and installed the chip-erase operation.
C19_Witness ==
    /\ call = "toggle_clock"
    /\ error = "none"
    /\ chip_state = "operation"
    /\ bit_index = 0
    /\ instruction_register = 96
    /\ operation.kind = "chip_erase"
    /\ serial_input = "low"

\* The first chip as an object value.
ThisChip ==
    [chip_enable |-> chip_enable, serial_input |-> serial_input,
     serial_output |-> serial_output, chip_state |-> chip_state,
     write_enabled |-> write_enabled, bit_index |-> bit_index,
     instruction_register |-> instruction_register, operation |-> operation,
     data |-> data, user_operations |-> user_operations]

\* The two descriptions of flash_sim agree: every call the caller makes on
\* the first chip has one of the outcomes perform_user_operation gives for
\* that call on the same object.
PerformAgreesWithChip ==
    [][ PinCall => [chip |-> ThisChip', error |-> error']
                      \in perform_user_operation(ThisChip, call') ]_vars

\* C16: determinism under replay. As long as no call on the first chip has
\* failed, the second chip, constructed with the same capacity and fed the
\* tokens of the first chip's log in order, accepts every token and has the
\* same memory, the same three pin levels, the same write-enable flag and
\* the same chip state as the first.
C16_ReplayDeterminism ==
    (budget.replay /\ failures = 0)
    => /\ ~replica.failed
       /\ replica.chip.data = data
       /\ replica.chip.chip_enable = chip_enable
       /\ replica.chip.serial_input = serial_input
       /\ replica.chip.serial_output = serial_output
       /\ replica.chip.write_enabled = write_enabled
       /\ replica.chip.chip_state = chip_state

\* The last token of the operation log, "none" for an empty log.
LastLogged ==
    IF user_operations = <<>> THEN "none" ELSE user_operations[Len(user_operations)]

\* C21: in command or operation state a call of toggle_serial_input whose
\* preceding logged operation is not toggle_serial_input flips the serial
\* input pin, appends its token to the log and changes nothing else of the
\* chip; one whose preceding logged operation is toggle_serial_input fails
\* with InvalidTransition and changes neither the pin, nor the rest of the
\* chip, nor the log.  No step ever appends a toggle_serial_input token
\* right after another.
C21_SerialInputToggle ==
    [][ /\ (chip_state # "deselected" /\ Called("toggle_serial_input"))
           => IF LastLogged = "toggle_serial_input"
              THEN /\ error' = "InvalidTransition"
                   /\ serial_input' = serial_input
                   /\ chip' = chip
                   /\ user_operations' = user_operations
              ELSE /\ error' = "none"
                   /\ serial_input' # serial_input
                   /\ serial_input' \in {"low", "high"}
                   /\ <<chip_enable, serial_output, chip_state, write_enabled,
                         bit_index, instruction_register, operation, data>>'
                        = <<chip_enable, serial_output, chip_state, write_enabled,
                            bit_index, instruction_register, operation, data>>
                   /\ user_operations' = Append(user_operations, "toggle_serial_input")
        /\ \A k \in 1..(Len(user_operations') - 1) :
              ~(/\ user_operations'[k] = "toggle_serial_input"
                /\ user_operations'[k + 1] = "toggle_serial_input")
      ]_vars

\* A second toggle_serial_input in a row was rejected, after a first one
\* that had flipped the pin.
C21_Witness ==
    /\ call = "toggle_serial_input"
    /\ error = "InvalidTransition"
    /\ chip_state # "deselected"
    /\ LastLogged = "toggle_serial_input"
    /\ strays >= 2

\* C23: in every reachable state the chip holds an active operation exactly
\* when its state is operation, and no call has ever met the state operation
\* without an operation (the logic_error of toggle_chip_enable and
\* toggle_clock).
C23_OperationIffOperationState ==
    /\ (operation # NoOperation) <=> (chip_state = "operation")
    /\ error # "NoOperation"

\* An operation is still active, in operation state, after two failed calls.
C23_Witness ==
    /\ chip_state = "operation"
    /\ operation # NoOperation
    /\ failures >= 2
    /\ error # "none"

\* C24: whenever toggle_clock is called in command state the bit counter of
\* the instruction register is between 1 and InstructionBits, so that the
\* call decrements it to a value between 0 and InstructionBits - 1 (never
\* wrapping to ByteMod - 1) and shifts the bit by at most 7 positions; this
\* also after a toggle_clock that failed with UnknownOpcode or
\* WriteEnableRequired.
C24_BitCounterInRange ==
    [][ (chip_state = "command" /\ Called("toggle_clock"))
        => /\ bit_index \in 1..InstructionBits
           /\ bit_index' = bit_index - 1
           /\ bit_index' \in 0..(InstructionBits - 1)
      ]_vars

\* A page write has its address and WriteBufferSize complete data bytes.
WriteBufferFull ==
    /\ chip_state = "operation"
    /\ operation.kind = "write"
    /\ operation.addr_bit_index = 0
    /\ operation.current_byte = WriteBufferSize

\* C22: once a page write has clocked WriteBufferSize complete data bytes
\* into the write buffer, every call of toggle_clock fails with BufferFull
\* and leaves the write buffer (the whole operation) and the memory as they
\* were, and a call of toggle_chip_enable still succeeds and ends the
\* command: the operation is released and the chip deselected.
C22_BufferFull ==
    [][ WriteBufferFull
        => /\ Called("toggle_clock")
              => /\ error' = "BufferFull"
                 /\ operation' = operation
                 /\ data' = data
                 /\ chip_state' = chip_state
           /\ Called("toggle_chip_enable")
              => /\ error' = "none"
                 /\ chip_state' = "deselected"
                 /\ operation' = NoOperation
      ]_vars

\* A full page write was ended by toggle_chip_enable after two calls of
\* toggle_clock had failed on the full buffer.
C22_Witness ==
    /\ call = "toggle_chip_enable"
    /\ error = "none"
    /\ chip_state = "deselected"
    /\ failures = 2
    /\ Len(history) = 4
    /\ Len(history[4]) = 2 + WriteBufferSize

====
